---- MODULE Spec2Model ----
(***************************************************************************)
(* Model of src/static/js/script.js: the dashboard controller that wires   *)
(* the timeframe buttons and the mock-data switch to updateDashboard, and  *)
(* renders the answer of /api/cost-data into three metrics and two charts. *)
(*                                                                         *)
(* Conventions.                                                            *)
(*  - Strings the code computes (button ids, timeframes, series labels,    *)
(*    metric texts, the export href) are sequences of one-character        *)
(*    strings, so that charAt, slice, replace, toUpperCase and toFixed are *)
(*    computed as the code computes them.  Strings the code only passes    *)
(*    along (titles, chart labels, toast messages) are TLA+ strings.       *)
(*  - A JSON number is an integer count of eighths (12.5 is 100): these    *)
(*    are exactly representable doubles, so toFixed rounds them exactly.   *)
(*  - One TLA+ step is one browser task: an event handler up to its first  *)
(*    await, or the continuation of updateDashboard after an await.        *)
(***************************************************************************)
EXTENDS Integers, Sequences, FiniteSets, TLC

VARIABLES
    phase,        \* "loading" before the DOMContentLoaded handler ran, then "ready"
    stored,       \* localStorage 'useMockData': <<>> (no item) or <<string>>
    mockChecked,  \* mockDataSwitch.checked
    active,       \* ids of the timeframe buttons that carry class "active"
    ui,           \* the DOM texts, the subtitle, the toast, its timers, the two charts
    requests,     \* the updateDashboard calls of this page, in the order issued
    console,      \* the errors console.error has logged, oldest first
    last          \* the updateDashboard call whose continuation has just finished

vars == <<phase, stored, mockChecked, active, ui, requests, console, last>>

(* ------------------------------ bounds --------------------------------- *)

\* updateDashboard calls one page issues before the model stops issuing more.
MaxRequests == 2

(* ------------------------------ strings -------------------------------- *)

Lower == <<"a","b","c","d","e","f","g","h","i","j","k","l","m",
           "n","o","p","q","r","s","t","u","v","w","x","y","z">>
Upper == <<"A","B","C","D","E","F","G","H","I","J","K","L","M",
           "N","O","P","Q","R","S","T","U","V","W","X","Y","Z">>

\* String.prototype.toUpperCase on a string of length <= 1.
toUpperCase(s) ==
    [k \in 1..Len(s) |->
        IF \E n \in 1..Len(Lower) : Lower[n] = s[k]
        THEN Upper[CHOOSE n \in 1..Len(Lower) : Lower[n] = s[k]]
        ELSE s[k]]

\* String.prototype.charAt: the one-character string at index i, or "".
charAt(s, i) == IF i + 1 <= Len(s) THEN <<s[i + 1]>> ELSE <<>>

\* String.prototype.slice(start) for a start >= 0.
slice(s, start) == SubSeq(s, start + 1, Len(s))

\* String.prototype.replace(pattern, replacement) with a string pattern:
\* only the first occurrence is replaced.
replace(s, pat, rep) ==
    LET hits == {k \in 1..(Len(s) - Len(pat) + 1) :
                    SubSeq(s, k, k + Len(pat) - 1) = pat}
    IN IF hits = {} THEN s
       ELSE LET k == CHOOSE h \in hits : \A g \in hits : h <= g
            IN SubSeq(s, 1, k - 1) \o rep \o SubSeq(s, k + Len(pat), Len(s))

RECURSIVE Digits(_)
\* The decimal digits of a natural number, most significant first.
Digits(n) ==
    LET d == <<"0","1","2","3","4","5","6","7","8","9">>
    IN IF n < 10 THEN <<d[n + 1]>> ELSE Digits(n \div 10) \o <<d[(n % 10) + 1]>>

\* toFixed2 with the hundredths cut off instead of rounded.
toFixed2_Truncating(v) ==
    LET x    == IF v < 0 THEN 0 - v ELSE v
        n    == (x * 100) \div 8
        m    == Digits(n)
        pad  == IF Len(m) <= 2
                THEN [k \in 1..(3 - Len(m)) |-> "0"] \o m
                ELSE m
        sign == IF v < 0 THEN <<"-">> ELSE <<>>
    IN sign \o SubSeq(pad, 1, Len(pad) - 2) \o <<".">>
            \o SubSeq(pad, Len(pad) - 1, Len(pad))

\* Number.prototype.toFixed(2) of the number v/8 (ECMAScript 21.1.3.3):
\* n is the integer nearest to |x|*100, the larger one on a tie; its digits
\* are padded to three and the point is put before the last two; a negative
\* x keeps its sign.
toFixed2(v) ==
    LET x    == IF v < 0 THEN 0 - v ELSE v
        n    == (x * 200 + 8) \div 16
        m    == Digits(n)
        pad  == IF Len(m) <= 2
                THEN [k \in 1..(3 - Len(m)) |-> "0"] \o m
                ELSE m
        sign == IF v < 0 THEN <<"-">> ELSE <<>>
    IN sign \o SubSeq(pad, 1, Len(pad) - 2) \o <<".">>
            \o SubSeq(pad, Len(pad) - 1, Len(pad))

\* The template literal `$${x.toFixed(2)}`.
Money(v) == <<"$">> \o toFixed2(v)

\* The literal '$0.00' of clearDashboard.
ZeroMoney == <<"$","0",".","0","0">>

\* The literal 'daily' (clearDashboard, initialTimeframe).
Daily == <<"d","a","i","l","y">>

\* The literal '-btn' of the two id.replace calls.
BtnSuffix == <<"-","b","t","n">>

\* The literal ' Spending' of the series-label template.
SpendingSuffix == <<" ","S","p","e","n","d","i","n","g">>

\* The literal '/export-csv?timeframe=' of the export-link template.
ExportPrefix == <<"/","e","x","p","o","r","t","-","c","s","v","?",
                  "t","i","m","e","f","r","a","m","e","=">>

\* The dataset label of chartConfigs.spendingTrend: 'Daily Spending'.
ConfigTrendLabel == <<"D","a","i","l","y"," ","S","p","e","n","d","i","n","g">>

\* SeriesLabel with the whole timeframe upper-cased.
SeriesLabel_AllUpper(timeframe) ==
    toUpperCase(timeframe) \o SpendingSuffix

\* The template literal of updateSpendingTrendChart.
SeriesLabel(timeframe) ==
    toUpperCase(charAt(timeframe, 0)) \o slice(timeframe, 1) \o SpendingSuffix

\* ExportHref that always encodes 'daily'.
ExportHref_AlwaysDaily(timeframe) == ExportPrefix \o Daily

\* The template literal of updateUI's export link.
ExportHref(timeframe) == ExportPrefix \o timeframe

\* String(b) for a boolean, as localStorage.setItem stores it.
BoolString(b) == IF b THEN "true" ELSE "false"

(* --------------------------- the page (HTML) --------------------------- *)

DailyBtn   == <<"d","a","i","l","y","-","b","t","n">>
WeeklyBtn  == <<"w","e","e","k","l","y","-","b","t","n">>
MonthlyBtn == <<"m","o","n","t","h","l","y","-","b","t","n">>

\* document.querySelectorAll('.timeframe-selector button'): the ids.
timeframeButtons == {DailyBtn, WeeklyBtn, MonthlyBtn}

\* The buttons the markup delivers with class "active".
HtmlActiveButtons == {DailyBtn}

(* --------------------------- the DataSource ---------------------------- *)

\* The CostReport of the specification's scenario 6.
ReportA ==
    [total_cost |-> 100, average_daily_cost |-> 100,
     forecasted_monthly_cost |-> 3000,
     spending_trend |-> [title |-> "T", labels |-> <<"Mon">>, data |-> <<100>>],
     resource_distribution |->
         [title |-> "D", labels |-> <<"Compute">>, data |-> <<100>>]]

\* A second report: 0.125 and 10.125 are rounding ties, 0 has no integer digits.
ReportB ==
    [total_cost |-> 1, average_daily_cost |-> 81,
     forecasted_monthly_cost |-> 0,
     spending_trend |->
         [title |-> "Trend", labels |-> <<"W1", "W2">>, data |-> <<1, 80>>],
     resource_distribution |->
         [title |-> "Share", labels |-> <<"Compute", "Storage">>,
          data |-> <<41, 40>>]]

\* A report that lacks resource_distribution.
ReportNoDistribution ==
    [total_cost |-> 100, average_daily_cost |-> 100,
     forecasted_monthly_cost |-> 3000,
     spending_trend |-> [title |-> "T", labels |-> <<"Mon">>, data |-> <<100>>]]

\* The bodies a response can carry: text that is not JSON (an empty body, an
\* HTML error page), or a JSON object.
Bodies ==
    { [parses |-> FALSE, json |-> [raw |-> "text"]],
      [parses |-> TRUE,  json |-> [error |-> "no credentials"]],
      [parses |-> TRUE,  json |-> [status |-> "failed"]],
      [parses |-> TRUE,  json |-> ReportA],
      [parses |-> TRUE,  json |-> ReportB],
      [parses |-> TRUE,  json |-> ReportNoDistribution] }

Has(data, field) == field \in DOMAIN data

(* ------------------------------ messages ------------------------------- *)

\* (the source text starts with a warning sign, left out here)
RealDataUnavailable == "Real data unavailable. Check credentials."
MockDataFailure     == "Error fetching mock data."
UnexpectedError     == "An unexpected error occurred."

(* ------------------------- the DOM and the charts ---------------------- *)

\* The page as the markup delivers it, with chartConfigs built and no chart
\* created (lines 2-53): handle 0 is `undefined`.
HtmlUi ==
    [totalCost |-> <<>>, avgDailyCost |-> <<>>, forecastedCost |-> <<>>,
     trendTitle |-> "", distTitle |-> "", exportHref |-> <<"#">>,
     subtitle |-> "block",
     toastText |-> "", toastClass |-> "", timers |-> <<>>,
     trendHandle |-> 0, trendCreated |-> 0,
     trendLabels |-> <<>>, trendData |-> <<>>, trendLabel |-> ConfigTrendLabel,
     distHandle |-> 0, distCreated |-> 0,
     distLabels |-> <<>>, distData |-> <<>>]

\* updateSpendingTrendChart without the `if (!spendingTrendChart)` guard.
updateSpendingTrendChart_AlwaysNew(d, labels, data, timeframe) ==
    [d EXCEPT !.trendCreated = @ + 1,
              !.trendHandle = d.trendCreated + 1,
              !.trendLabels = labels,
              !.trendData   = data,
              !.trendLabel  = SeriesLabel(timeframe)]

\* updateSpendingTrendChart: create the chart if there is none, then set the
\* labels, the data and the series label of the one chart.
updateSpendingTrendChart(d, labels, data, timeframe) ==
    LET c == IF d.trendHandle = 0
             THEN [d EXCEPT !.trendCreated = @ + 1, !.trendHandle = d.trendCreated + 1]
             ELSE d
    IN [c EXCEPT !.trendLabels = labels,
                 !.trendData   = data,
                 !.trendLabel  = SeriesLabel(timeframe)]

\* updateResourceDistributionChart without the guard.
updateResourceDistributionChart_AlwaysNew(d, labels, data) ==
    [d EXCEPT !.distCreated = @ + 1,
              !.distHandle = d.distCreated + 1,
              !.distLabels = labels,
              !.distData = data]

\* updateResourceDistributionChart: the same for the doughnut chart.
updateResourceDistributionChart(d, labels, data) ==
    LET c == IF d.distHandle = 0
             THEN [d EXCEPT !.distCreated = @ + 1, !.distHandle = d.distCreated + 1]
             ELSE d
    IN [c EXCEPT !.distLabels = labels, !.distData = data]

\* clearDashboard that also puts the export link back to 'daily'.
clearDashboard_ResetsExport(d) ==
    LET d1 == [d EXCEPT !.totalCost      = ZeroMoney,
                        !.avgDailyCost   = ZeroMoney,
                        !.forecastedCost = ZeroMoney,
                        !.trendTitle     = "Spending Trend",
                        !.exportHref     = ExportHref(Daily)]
        d2 == updateSpendingTrendChart(d1, <<>>, <<>>, Daily)
        d3 == [d2 EXCEPT !.distTitle = "Cost Distribution"]
    IN updateResourceDistributionChart(d3, <<>>, <<>>)

\* clearDashboard that resets the metrics and the trend chart only.
clearDashboard_TrendOnly(d) ==
    LET d1 == [d EXCEPT !.totalCost      = ZeroMoney,
                        !.avgDailyCost   = ZeroMoney,
                        !.forecastedCost = ZeroMoney,
                        !.trendTitle     = "Spending Trend"]
    IN updateSpendingTrendChart(d1, <<>>, <<>>, Daily)

\* clearDashboard.
clearDashboard(d) ==
    LET d1 == [d EXCEPT !.totalCost      = ZeroMoney,
                        !.avgDailyCost   = ZeroMoney,
                        !.forecastedCost = ZeroMoney,
                        !.trendTitle     = "Spending Trend"]
        d2 == updateSpendingTrendChart(d1, <<>>, <<>>, Daily)
        d3 == [d2 EXCEPT !.distTitle = "Cost Distribution"]
    IN updateResourceDistributionChart(d3, <<>>, <<>>)

\* showToast that leaves a visible message in place and only restarts the
\* timer (the new message waits behind the old one).
showToast_KeepsVisible(d, message, owner) ==
    [d EXCEPT !.toastText  = IF d.toastClass = "show" THEN @ ELSE message,
              !.toastClass = "show",
              !.timers     = Append(@, owner)]

\* showToast, called by request `owner`: set the text, show the toast and
\* start a 3000 ms timer.  Equal delays fire in the order they were set.
showToast(d, message, owner) ==
    [d EXCEPT !.toastText  = message,
              !.toastClass = "show",
              !.timers     = Append(@, owner)]

\* updateUI: the statements run in order; the first one that reads a
\* property of undefined throws a TypeError and leaves the earlier writes.
\* The result is the DOM and the error thrown ("" when none).
updateUI(d, data, timeframe) ==
    LET Thrown(e) == [ui |-> e, err |-> "TypeError"]
        d1 == [d  EXCEPT !.totalCost      = Money(data.total_cost)]
        d2 == [d1 EXCEPT !.avgDailyCost   = Money(data.average_daily_cost)]
        d3 == [d2 EXCEPT !.forecastedCost = Money(data.forecasted_monthly_cost)]
        d4 == [d3 EXCEPT !.trendTitle     = data.spending_trend.title]
        d5 == updateSpendingTrendChart(d4, data.spending_trend.labels,
                                       data.spending_trend.data, timeframe)
        d6 == [d5 EXCEPT !.distTitle      = data.resource_distribution.title]
        d7 == updateResourceDistributionChart(d6, data.resource_distribution.labels,
                                              data.resource_distribution.data)
    IN  IF ~Has(data, "total_cost") THEN Thrown(d)
        ELSE IF ~Has(data, "average_daily_cost") THEN Thrown(d1)
        ELSE IF ~Has(data, "forecasted_monthly_cost") THEN Thrown(d2)
        ELSE IF ~Has(data, "spending_trend") THEN Thrown(d3)
        ELSE IF ~Has(data, "resource_distribution") THEN Thrown(d5)
        ELSE [ui |-> [d7 EXCEPT !.exportHref = ExportHref(timeframe)], err |-> ""]

(* --------------------------- updateDashboard --------------------------- *)

\* No continuation of updateDashboard has just finished.
NoCall ==
    [req |-> 0, fetched |-> FALSE, ok |-> FALSE,
     body |-> [parses |-> FALSE, json |-> [raw |-> "text"]], outcome |-> "none"]

\* The catch block without the clearDashboard call.
Caught_NoClear(d, i, error) ==
    [ui      |-> showToast(d, UnexpectedError, i),
     outcome |-> "caught",
     logged  |-> <<error>>]

\* The catch block of updateDashboard, in call i: log, toast, clear.
Caught(d, i, error) ==
    [ui      |-> clearDashboard(showToast(d, UnexpectedError, i)),
     outcome |-> "caught",
     logged  |-> <<error>>]

\* AfterJson whose parse failure shows the toast but neither logs the error
\* nor clears the dashboard.
AfterJson_ParseNotCaught(d, r, body, i) ==
    IF ~body.parses
    THEN [ui |-> showToast(d, UnexpectedError, i),
          outcome |-> "caught", logged |-> <<>>]
    ELSE
      LET data == body.json IN
      IF r.ok
      THEN LET u == updateUI(d, data, r.timeframe)
           IN IF u.err = ""
              THEN [ui |-> u.ui, outcome |-> "rendered", logged |-> <<>>]
              ELSE Caught(u.ui, i, u.err)
      ELSE IF ~r.useMockData
      THEN LET message == IF Has(data, "error") THEN data.error
                          ELSE RealDataUnavailable
               shown   == clearDashboard(showToast(d, message, i))
           IN [ui      |-> [shown EXCEPT !.subtitle = "none"],
               outcome |-> "real_unavailable",
               logged  |-> <<>>]
      ELSE [ui      |-> clearDashboard(showToast(d, MockDataFailure, i)),
            outcome |-> "mock_failure",
            logged  |-> <<>>]

\* updateDashboard from `await response.json()` to its end, for call i with
\* arguments and response r, when the body read is `body`.
AfterJson(d, r, body, i) ==
    IF ~body.parses THEN Caught(d, i, "SyntaxError")
    ELSE
      LET data == body.json IN
      IF r.ok
      THEN LET u == updateUI(d, data, r.timeframe)
           IN IF u.err = ""
              THEN [ui |-> u.ui, outcome |-> "rendered", logged |-> <<>>]
              ELSE Caught(u.ui, i, u.err)
      ELSE IF ~r.useMockData
      THEN LET message == IF Has(data, "error") THEN data.error
                          ELSE RealDataUnavailable
               shown   == clearDashboard(showToast(d, message, i))
           IN [ui      |-> [shown EXCEPT !.subtitle = "none"],
               outcome |-> "real_unavailable",
               logged  |-> <<>>]
      ELSE [ui      |-> clearDashboard(showToast(d, MockDataFailure, i)),
            outcome |-> "mock_failure",
            logged  |-> <<>>]

\* updateDashboard that shows the subtitle for real data and never hides it.
updateDashboard_NeverHides(timeframe, useMockData) ==
    /\ ui' = [ui EXCEPT !.subtitle = IF useMockData THEN @ ELSE "block"]
    /\ requests' = Append(requests,
                          [timeframe |-> timeframe, useMockData |-> useMockData,
                           pc |-> "fetch", ok |-> FALSE, outcome |-> "none"])

\* updateDashboard up to `await fetch(...)`: set the subtitle, send the request.
updateDashboard(timeframe, useMockData) ==
    /\ ui' = [ui EXCEPT !.subtitle = IF useMockData THEN "none" ELSE "block"]
    /\ requests' = Append(requests,
                          [timeframe |-> timeframe, useMockData |-> useMockData,
                           pc |-> "fetch", ok |-> FALSE, outcome |-> "none"])

(* ------------------------------- actions ------------------------------- *)

\* InitialLoad that does not read the stored preference.
InitialLoad_IgnoresStored ==
    /\ phase = "loading"
    /\ phase' = "ready"
    /\ mockChecked' = mockChecked
    /\ updateDashboard(Daily, mockChecked')
    /\ last' = NoCall
    /\ UNCHANGED <<stored, active, console>>

\* The DOMContentLoaded handler: read the preference, issue the first call.
InitialLoad ==
    /\ phase = "loading"
    /\ phase' = "ready"
    /\ mockChecked' = IF stored # <<>> THEN stored[1] = "true" ELSE mockChecked
    /\ updateDashboard(Daily, mockChecked')
    /\ last' = NoCall
    /\ UNCHANGED <<stored, active, console>>

\* TimeframeClick that does not take "active" off the other buttons.
TimeframeClick_KeepsOthers(button) ==
    /\ phase = "ready"
    /\ Len(requests) < MaxRequests
    /\ active' = active \cup {button}
    /\ updateDashboard(replace(button, BtnSuffix, <<>>), mockChecked)
    /\ last' = NoCall
    /\ UNCHANGED <<phase, stored, mockChecked, console>>

\* The click handler of a timeframe button.
TimeframeClick(button) ==
    /\ phase = "ready"
    /\ Len(requests) < MaxRequests
    /\ active' = (active \ timeframeButtons) \cup {button}
    /\ updateDashboard(replace(button, BtnSuffix, <<>>), mockChecked)
    /\ last' = NoCall
    /\ UNCHANGED <<phase, stored, mockChecked, console>>

\* document.querySelector('.timeframe-selector button.active'): the first
\* active button in document order.
FirstActive ==
    LET order == <<DailyBtn, WeeklyBtn, MonthlyBtn>>
        k == CHOOSE n \in 1..Len(order) :
                 /\ order[n] \in active
                 /\ \A m \in 1..(n - 1) : order[m] \notin active
    IN order[k]

\* The user flips the switch; its change handler stores the flag and
\* refreshes.  With no active button the handler throws after setItem.
MockDataSwitchChange ==
    /\ phase = "ready"
    /\ Len(requests) < MaxRequests
    /\ mockChecked' = ~mockChecked
    /\ stored' = <<BoolString(mockChecked')>>
    /\ IF active # {}
       THEN updateDashboard(replace(FirstActive, BtnSuffix, <<>>), mockChecked')
       ELSE UNCHANGED <<ui, requests>>
    /\ last' = NoCall
    /\ UNCHANGED <<phase, active, console>>

\* fetch resolves for call i: the status line says ok or not.
FetchResolved(i, ok) ==
    /\ requests[i].pc = "fetch"
    /\ requests' = [requests EXCEPT ![i].pc = "json", ![i].ok = ok]
    /\ last' = NoCall
    /\ UNCHANGED <<phase, stored, mockChecked, active, ui, console>>

\* FetchRejected that also puts the switch back to the other mode.
FetchRejected_RevertsSwitch(i) ==
    /\ requests[i].pc = "fetch"
    /\ LET c == Caught(ui, i, "NetworkError")
       IN /\ ui' = c.ui
          /\ console' = console \o c.logged
          /\ requests' = [requests EXCEPT ![i].pc = "done", ![i].outcome = c.outcome]
          /\ last' = [req |-> i, fetched |-> FALSE, ok |-> FALSE,
                      body |-> NoCall.body, outcome |-> c.outcome]
    /\ mockChecked' = ~mockChecked
    /\ UNCHANGED <<phase, stored, active>>

\* fetch rejects for call i (network error): the catch block runs.
FetchRejected(i) ==
    /\ requests[i].pc = "fetch"
    /\ LET c == Caught(ui, i, "NetworkError")
       IN /\ ui' = c.ui
          /\ console' = console \o c.logged
          /\ requests' = [requests EXCEPT ![i].pc = "done", ![i].outcome = c.outcome]
          /\ last' = [req |-> i, fetched |-> FALSE, ok |-> FALSE,
                      body |-> NoCall.body, outcome |-> c.outcome]
    /\ UNCHANGED <<phase, stored, mockChecked, active>>

\* JsonSettled that drops the response of a call that is not the latest.
JsonSettled_DropsStale(i, body) ==
    /\ requests[i].pc = "json"
    /\ LET c == AfterJson(ui, requests[i], body, i)
           stale == i < Len(requests)
       IN /\ ui' = IF stale THEN ui ELSE c.ui
          /\ console' = IF stale THEN console ELSE console \o c.logged
          /\ requests' = [requests EXCEPT ![i].pc = "done", ![i].outcome = c.outcome]
          /\ last' = [req |-> i, fetched |-> TRUE, ok |-> requests[i].ok,
                      body |-> body, outcome |-> c.outcome]
    /\ UNCHANGED <<phase, stored, mockChecked, active>>

\* JsonSettled that sends the request again when the body does not parse.
JsonSettled_Retries(i, body) ==
    /\ requests[i].pc = "json"
    /\ IF ~body.parses
       THEN /\ requests' = [requests EXCEPT ![i].pc = "fetch", ![i].ok = FALSE]
            /\ last' = NoCall
            /\ UNCHANGED <<ui, console>>
       ELSE LET c == AfterJson(ui, requests[i], body, i)
            IN /\ ui' = c.ui
               /\ console' = console \o c.logged
               /\ requests' = [requests EXCEPT ![i].pc = "done",
                                               ![i].outcome = c.outcome]
               /\ last' = [req |-> i, fetched |-> TRUE, ok |-> requests[i].ok,
                           body |-> body, outcome |-> c.outcome]
    /\ UNCHANGED <<phase, stored, mockChecked, active>>

\* response.json() settles for call i with the body read.
JsonSettled(i, body) ==
    /\ requests[i].pc = "json"
    /\ LET c == AfterJson(ui, requests[i], body, i)
       IN /\ ui' = c.ui
          /\ console' = console \o c.logged
          /\ requests' = [requests EXCEPT ![i].pc = "done", ![i].outcome = c.outcome]
          /\ last' = [req |-> i, fetched |-> TRUE, ok |-> requests[i].ok,
                      body |-> body, outcome |-> c.outcome]
    /\ UNCHANGED <<phase, stored, mockChecked, active>>

\* The oldest pending timer of showToast fires.
ToastTimeout ==
    /\ ui.timers # <<>>
    /\ ui' = [ui EXCEPT !.timers = Tail(@), !.toastClass = ""]
    /\ last' = NoCall
    /\ UNCHANGED <<phase, stored, mockChecked, active, requests, console>>

\* The page is loaded again: only localStorage survives.
Reload ==
    /\ phase = "ready"
    /\ phase' = "loading"
    /\ mockChecked' \in BOOLEAN
    /\ active' = HtmlActiveButtons
    /\ ui' = HtmlUi
    /\ requests' = <<>>
    /\ console' = <<>>
    /\ last' = NoCall
    /\ UNCHANGED stored

\* The first visit: nothing stored yet, the switch as the markup sets it.
Init ==
    /\ phase = "loading"
    /\ stored = <<>>
    /\ mockChecked \in BOOLEAN
    /\ active = HtmlActiveButtons
    /\ ui = HtmlUi
    /\ requests = <<>>
    /\ console = <<>>
    /\ last = NoCall

Next ==
    \/ InitialLoad
    \/ \E button \in timeframeButtons : TimeframeClick(button)
    \/ MockDataSwitchChange
    \/ \E i \in 1..Len(requests), ok \in BOOLEAN : FetchResolved(i, ok)
    \/ \E i \in 1..Len(requests) : FetchRejected(i)
    \/ \E i \in 1..Len(requests), body \in Bodies : JsonSettled(i, body)
    \/ ToastTimeout
    \/ Reload

Spec == Init /\ [][Next]_vars

\* The DataSource settles call i: the fetch resolves or rejects, or the
\* body is read.
Settle(i) ==
    /\ i <= Len(requests)
    /\ \/ \E ok \in BOOLEAN : FetchResolved(i, ok)
       \/ FetchRejected(i)
       \/ \E body \in Bodies : JsonSettled(i, body)

\* The steps of the calls of one page load.  A reload is left out: it
\* discards the page together with the calls that await their responses.
\* The toast timers are left out: ToastTimeout reads and writes the toast
\* only, which no step of a call reads.
NextPage ==
    \/ InitialLoad
    \/ \E button \in timeframeButtons : TimeframeClick(button)
    \/ MockDataSwitchChange
    \/ \E i \in 1..Len(requests), ok \in BOOLEAN : FetchResolved(i, ok)
    \/ \E i \in 1..Len(requests) : FetchRejected(i)
    \/ \E i \in 1..Len(requests), body \in Bodies : JsonSettled(i, body)

\* One page load under a DataSource that eventually answers or fails every
\* request it was sent.  Nothing obliges the user to act.
FairSpec ==
    Init /\ [][NextPage]_vars /\ \A i \in 1..MaxRequests : WF_vars(Settle(i))

(* ===================== properties of the controller ==================== *)

\* The call whose continuation has just finished, and what it was given.
Handled      == last.req # 0
HandledCall  == requests[last.req]
Unsuccessful == Handled /\ last.fetched /\ ~last.ok
TransportFailed == Handled /\ ~last.fetched
ParseFailed  == Handled /\ last.fetched /\ ~last.body.parses

\* A body that is a complete CostReport.
IsCostReport(body) ==
    /\ body.parses
    /\ \A f \in {"total_cost", "average_daily_cost", "forecasted_monthly_cost",
                 "spending_trend", "resource_distribution"} : Has(body.json, f)

\* A response marked successful that carries a complete CostReport was applied.
Applied == Handled /\ last.fetched /\ last.ok /\ IsCostReport(last.body)

\* The zero display state of section 4.1.b.
ZeroState(d) ==
    /\ d.totalCost = <<"$","0",".","0","0">>
    /\ d.avgDailyCost = <<"$","0",".","0","0">>
    /\ d.forecastedCost = <<"$","0",".","0","0">>
    /\ d.trendTitle = "Spending Trend"
    /\ d.distTitle = "Cost Distribution"
    /\ d.trendLabels = <<>> /\ d.trendData = <<>>
    /\ d.distLabels = <<>> /\ d.distData = <<>>
    /\ d.trendLabel = <<"D","a","i","l","y"," ","S","p","e","n","d","i","n","g">>

\* C1: every failure path of refresh (an unsuccessful response in either
\* mode, a transport failure, a parse failure) ends with the call finished,
\* a notification shown and the display in the zero state.
C1_FailureEndsInZeroState ==
    (Unsuccessful \/ TransportFailed \/ ParseFailed) =>
        /\ HandledCall.pc = "done"
        /\ ui.toastClass = "show"
        /\ ui.toastText \in {UnexpectedError, MockDataFailure,
                             RealDataUnavailable, "no credentials"}
        /\ ZeroState(ui)

\* A failed real-data call has just finished while an earlier call had
\* already drawn its charts.
C1_Witness ==
    /\ Unsuccessful /\ ~HandledCall.useMockData /\ last.body.parses
    /\ last.req = 2 /\ requests[1].outcome = "rendered"
    /\ ZeroState(ui) /\ ui.toastClass = "show"

\* C2: after an unsuccessful response to a call with useMockData = false has
\* been handled, the subtitle is hidden.
C2_SubtitleHiddenAfterRealFailure ==
    (Unsuccessful /\ ~HandledCall.useMockData) => ui.subtitle = "none"

\* C3: after an unsuccessful response the toast text is the server's error
\* or the real-data fallback (useMockData false), or the mock-data failure
\* message (useMockData true), whatever the body.
C3_ToastTextOfUnsuccessful ==
    Unsuccessful =>
        IF HandledCall.useMockData
        THEN ui.toastText = MockDataFailure
        ELSE ui.toastText =
                 IF last.body.parses /\ Has(last.body.json, "error")
                 THEN last.body.json.error
                 ELSE RealDataUnavailable

\* C4: a step that handles a parse failure of a successful response's body
\* has the outcome of a step that handles a transport failure: one more
\* error logged, the generic notification shown, the zero state, and the
\* subtitle and the export link as they were.
C4_ParseFailureLikeTransportFailure ==
    [][ ((TransportFailed \/ (ParseFailed /\ last.ok))')
          => /\ Len(console') = Len(console) + 1
             /\ ui'.toastText = UnexpectedError
             /\ ui'.toastClass = "show"
             /\ ZeroState(ui')
             /\ ui'.subtitle = ui.subtitle
             /\ ui'.exportHref = ui.exportHref
             /\ ui'.timers = Append(ui.timers, last'.req) ]_vars

\* The body of a successful response did not parse, after a report had been
\* drawn.
C4_Witness ==
    /\ ParseFailed /\ last.ok
    /\ last.req = 2 /\ requests[1].outcome = "rendered"
    /\ console = <<"SyntaxError">>
    /\ ui.toastText = UnexpectedError

\* C5: each chart area has at most one chart ever created, and the handle in
\* use is that one.
C5_OneChartPerArea ==
    /\ ui.trendCreated <= 1 /\ ui.trendHandle = ui.trendCreated
    /\ ui.distCreated <= 1  /\ ui.distHandle = ui.distCreated

\* Two calls have passed through the chart updates, one a render and one a
\* clear.
C5_Witness ==
    /\ Len(requests) = 2
    /\ \A i \in 1..2 : requests[i].pc = "done"
    /\ \E i \in 1..2 : requests[i].outcome = "rendered"
    /\ \E i \in 1..2 : requests[i].outcome = "mock_failure"
    /\ ui.trendHandle = 1 /\ ui.distHandle = 1

\* C6: exactly one timeframe button is active.
C6_ExactlyOneActive == Cardinality(active) = 1

\* Another button than the markup's was clicked and its response applied.
C6_Witness ==
    /\ active = {MonthlyBtn}
    /\ Len(requests) = 2 /\ requests[2].pc = "done"

\* What the display holds when `report` was rendered for `timeframe`.
Shows(d, report, timeframe) ==
    /\ d.totalCost = Money(report.total_cost)
    /\ d.avgDailyCost = Money(report.average_daily_cost)
    /\ d.forecastedCost = Money(report.forecasted_monthly_cost)
    /\ d.trendTitle = report.spending_trend.title
    /\ d.trendLabels = report.spending_trend.labels
    /\ d.trendData = report.spending_trend.data
    /\ d.distTitle = report.resource_distribution.title
    /\ d.distLabels = report.resource_distribution.labels
    /\ d.distData = report.resource_distribution.data
    /\ d.trendLabel = SeriesLabel(timeframe)
    /\ d.exportHref = ExportPrefix \o timeframe

\* C7: no ordering between overlapping calls: a report that arrives for an
\* earlier call after a later call has finished is rendered all the same, so
\* the display is that of the response handled last.
C7_StaleResponseOverwrites ==
    (Applied /\ \E j \in (last.req + 1)..Len(requests) : requests[j].pc = "done")
        => Shows(ui, last.body.json, HandledCall.timeframe)

\* The page-load call (daily) got its report after the call of the weekly
\* click had rendered: weekly is the active button, the display is daily's.
C7_Witness ==
    /\ Applied /\ last.req = 1
    /\ Len(requests) = 2 /\ requests[2].outcome = "rendered"
    /\ requests[2].timeframe = <<"w","e","e","k","l","y">>
    /\ active = {WeeklyBtn}
    /\ ui.trendLabel = <<"D","a","i","l","y"," ","S","p","e","n","d","i","n","g">>

\* `label` is `timeframe` with its first character upper-cased, the rest
\* unchanged, followed by " Spending".
IsCapitalizedSpending(label, timeframe) ==
    /\ Len(label) = Len(timeframe) + 9
    /\ SubSeq(label, Len(timeframe) + 1, Len(label)) =
           <<" ","S","p","e","n","d","i","n","g">>
    /\ \A k \in 2..Len(timeframe) : label[k] = timeframe[k]
    /\ Len(timeframe) > 0 =>
           \/ \E n \in 1..26 : Lower[n] = timeframe[1] /\ Upper[n] = label[1]
           \/ (\A n \in 1..26 : Lower[n] # timeframe[1]) /\ label[1] = timeframe[1]

\* C8: after a successful response was applied, the trend series label is
\* the capitalized timeframe plus " Spending" ("weekly" gives "Weekly
\* Spending"), and both charts hold the labels and data of the report.
C8_SeriesLabelAndSeries ==
    Applied =>
        /\ IsCapitalizedSpending(ui.trendLabel, HandledCall.timeframe)
        /\ HandledCall.timeframe = <<"w","e","e","k","l","y">> =>
               ui.trendLabel =
                   <<"W","e","e","k","l","y"," ","S","p","e","n","d","i","n","g">>
        /\ ui.trendLabels = last.body.json.spending_trend.labels
        /\ ui.trendData = last.body.json.spending_trend.data
        /\ ui.distLabels = last.body.json.resource_distribution.labels
        /\ ui.distData = last.body.json.resource_distribution.data

\* A report with two points was applied for the weekly click.
C8_Witness ==
    /\ Applied
    /\ HandledCall.timeframe = <<"w","e","e","k","l","y">>
    /\ Len(ui.trendLabels) = 2 /\ Len(ui.distData) = 2

\* The value of a digit character.
DigitValue(c) ==
    CHOOSE n \in 0..9 : <<"0","1","2","3","4","5","6","7","8","9">>[n + 1] = c

RECURSIVE NumberOf(_)
\* The natural number a sequence of digit characters denotes.
NumberOf(digits) ==
    IF digits = <<>> THEN 0
    ELSE 10 * NumberOf(SubSeq(digits, 1, Len(digits) - 1))
         + DigitValue(digits[Len(digits)])

IsDigit(c) == c \in {"0","1","2","3","4","5","6","7","8","9"}

\* `text` is "$", one or more digits, ".", exactly two digits, and the
\* amount in hundredths is the one nearest to v/8 (the larger on a tie).
IsMoneyOf(text, v) ==
    /\ Len(text) >= 5
    /\ text[1] = "$"
    /\ text[Len(text) - 2] = "."
    /\ \A k \in (2..Len(text)) \ {Len(text) - 2} : IsDigit(text[k])
    /\ (Len(text) > 5) => text[2] # "0"
    /\ LET cents == 100 * NumberOf(SubSeq(text, 2, Len(text) - 3))
                    + NumberOf(SubSeq(text, Len(text) - 1, Len(text)))
       IN 8 * cents - 100 * v \in (0 - 3)..4

\* C9: after a successful response was applied, each of the three metric
\* texts is the response's number with a leading "$" and exactly two
\* decimals (12.5 gives "$12.50", 375 gives "$375.00").
C9_MetricsFormatted ==
    Applied =>
        /\ IsMoneyOf(ui.totalCost, last.body.json.total_cost)
        /\ IsMoneyOf(ui.avgDailyCost, last.body.json.average_daily_cost)
        /\ IsMoneyOf(ui.forecastedCost, last.body.json.forecasted_monthly_cost)
        /\ last.body.json.total_cost = 100 =>
               ui.totalCost = <<"$","1","2",".","5","0">>
        /\ last.body.json.forecasted_monthly_cost = 3000 =>
               ui.forecastedCost = <<"$","3","7","5",".","0","0">>

\* The report with the rounding ties 0.125 and 10.125 and the value 0 was
\* applied.
C9_Witness ==
    /\ Applied
    /\ last.body.json.total_cost = 1
    /\ ui.totalCost = <<"$","0",".","1","3">>
    /\ ui.avgDailyCost = <<"$","1","0",".","1","3">>
    /\ ui.forecastedCost = <<"$","0",".","0","0">>

\* C10: clear() is idempotent on every display state the page reaches: a
\* second clear changes nothing of what the first left (metrics, titles,
\* series, chart handles, subtitle, export link, notification).
C10_ClearIdempotent ==
    clearDashboard(clearDashboard(ui)) = clearDashboard(ui)

\* A report is on display: the first clear changes the display to the zero
\* state and keeps the chart handles.
C10_Witness ==
    /\ Applied
    /\ clearDashboard(ui) # ui
    /\ ZeroState(clearDashboard(ui))
    /\ clearDashboard(ui).trendHandle = ui.trendHandle

\* The message the call that has just finished passed to showToast.
ToastOfLast ==
    IF TransportFailed \/ ParseFailed THEN "An unexpected error occurred."
    ELSE IF last.ok THEN "An unexpected error occurred."
    ELSE IF HandledCall.useMockData THEN "Error fetching mock data."
    ELSE IF Has(last.body.json, "error") THEN last.body.json.error
    ELSE RealDataUnavailable

\* C11: there is one notification; a notification shown while another is
\* visible replaces its text at once and is visible, it does not wait.
C11_NewToastReplaces ==
    (Handled /\ ~Applied) =>
        /\ ui.toastText = ToastOfLast
        /\ ui.toastClass = "show"

\* The second call showed its toast while the timer of the first call's
\* toast, a different message, was still pending.
C11_Witness ==
    /\ Handled /\ last.req = 2 /\ last.outcome = "mock_failure"
    /\ requests[1].outcome = "caught"
    /\ ui.timers = <<1, 2>>
    /\ ui.toastText = "Error fetching mock data."

\* C12: every toggle stores the new flag as "true" or "false"; the load
\* handler issues the first call with timeframe "daily" and the stored flag,
\* or the switch's own value when nothing is stored, and sets the switch to it.
C12_PreferenceRoundTrip ==
    [][ /\ (phase = "ready" /\ phase' = "ready" /\ mockChecked' # mockChecked)
            => stored' = IF mockChecked' THEN <<"true">> ELSE <<"false">>
        /\ (phase = "loading" /\ phase' = "ready")
            => /\ Len(requests') = 1
               /\ requests'[1].pc = "fetch"
               /\ requests'[1].timeframe = <<"d","a","i","l","y">>
               /\ requests'[1].useMockData =
                      IF stored = <<>> THEN mockChecked ELSE stored = <<"true">>
               /\ mockChecked' = requests'[1].useMockData
               /\ stored' = stored ]_vars

\* The switch was flipped to mock data on an earlier load; the page has
\* loaded again and issued its first call with the stored flag.
C12_Witness ==
    /\ phase = "ready" /\ Len(requests) = 1
    /\ stored = <<"true">>
    /\ requests[1].useMockData /\ mockChecked
    /\ requests[1].timeframe = <<"d","a","i","l","y">>

\* C13: when the subtitle is visible, the call issued last was issued with
\* useMockData = false.
C13_SubtitleOnlyForRealData ==
    (requests # <<>> /\ ui.subtitle = "block")
        => ~requests[Len(requests)].useMockData

\* The page was in mock mode, the switch was flipped to real data, and the
\* subtitle is visible.
C13_Witness ==
    /\ Len(requests) = 2
    /\ requests[1].useMockData /\ ~requests[2].useMockData
    /\ ui.subtitle = "block"

\* C14: after a report was applied, the export link is
\* "/export-csv?timeframe=" followed by the timeframe of the call, which is
\* the timeframe the trend series label shows.
C14_ExportLinkOfAppliedReport ==
    Applied =>
        /\ ui.exportHref =
               <<"/","e","x","p","o","r","t","-","c","s","v","?",
                 "t","i","m","e","f","r","a","m","e","=">>
               \o HandledCall.timeframe
        /\ IsCapitalizedSpending(ui.trendLabel, slice(ui.exportHref, 22))

\* A report was applied for the monthly click.
C14_Witness ==
    /\ Applied
    /\ HandledCall.timeframe = <<"m","o","n","t","h","l","y">>
    /\ slice(ui.exportHref, 22) = <<"m","o","n","t","h","l","y">>

\* A step in which a response or a failure of the request arrives for a call.
ResponseStep ==
    /\ Len(requests') = Len(requests)
    /\ \E i \in 1..Len(requests) : requests'[i].pc # requests[i].pc

\* A step in which a timer of showToast fires.
TimerStep ==
    /\ phase' = phase
    /\ Len(ui'.timers) < Len(ui.timers)

\* C15: a step that handles a response (or a failure of the request) and a
\* step in which a toast timer fires leave the active timeframe, the switch
\* and the stored preference as they were.
C15_DisplayModeOnlyByUser ==
    [][ (ResponseStep \/ TimerStep)
          => /\ active' = active
             /\ mockChecked' = mockChecked
             /\ stored' = stored ]_vars

\* The mode was changed by the user (monthly, flag stored), then a failure
\* was handled and the toast timer of the first call has fired.
C15_Witness ==
    /\ Handled /\ last.req = 2 /\ ~Applied
    /\ requests[1].outcome = "caught"
    /\ ui.timers = <<2>>
    /\ active = {MonthlyBtn}

\* Call i of this page has been issued and has not finished.
Awaiting(i) == i <= Len(requests) /\ requests[i].pc # "done"

\* Call i of this page has finished.
Completed(i) == i <= Len(requests) /\ requests[i].pc = "done"

\* C16: under a DataSource that settles every request, the page is again
\* and again in a state in which every call issued so far has finished (so
\* every call that awaits its response finishes); a call only moves from
\* the fetch to the body to its end and stays there; it ends
\* with a rendered report, or with a toast and the zero state; handling a
\* response issues no request; and the click and the switch stay enabled
\* while calls await their responses.
C16_RefreshCompletesOnce ==
    /\ []<>(\A i \in 1..Len(requests) : Completed(i))
    /\ [][ \A i \in 1..Len(requests) :
             (Len(requests') >= i /\ requests'[i] # requests[i])
               => /\ Len(requests') = Len(requests)
                  /\ <<requests[i].pc, requests'[i].pc>> \in
                         {<<"fetch", "json">>, <<"fetch", "done">>,
                          <<"json", "done">>}
                  /\ requests'[i].timeframe = requests[i].timeframe
                  /\ requests'[i].useMockData = requests[i].useMockData
                  /\ requests'[i].pc = "done"
                       => \/ /\ requests'[i].outcome = "rendered"
                             /\ ui'.toastText = ui.toastText
                             /\ ui'.trendHandle # 0 /\ ui'.distHandle # 0
                          \/ /\ requests'[i].outcome # "rendered"
                             /\ ui'.toastClass = "show"
                             /\ ZeroState(ui') ]_vars
    /\ [](( /\ phase = "ready"
            /\ Len(requests) < MaxRequests
            /\ \E i \in 1..Len(requests) : Awaiting(i))
          => /\ ENABLED MockDataSwitchChange
             /\ \A button \in timeframeButtons : ENABLED TimeframeClick(button))

\* Both calls of the page were in flight together and both have finished,
\* one with a report and one with a failure.
C16_Witness ==
    /\ Len(requests) = 2
    /\ Completed(1) /\ Completed(2)
    /\ requests[1].outcome = "rendered"
    /\ requests[2].outcome = "real_unavailable"
    /\ Handled /\ last.req = 1

\* No call of this page awaits a response.
NothingInFlight == \A i \in 1..Len(requests) : Completed(i)

\* C17: when the last response has been handled and no request is in
\* flight, a visible subtitle captions a report that was returned for a call
\* with useMockData = false: it is not visible over mock data or over the
\* zero state.
C17_SubtitleCaptionsRealData ==
    (Handled /\ NothingInFlight /\ ui.subtitle = "block")
        => /\ Applied
           /\ ~HandledCall.useMockData
           /\ ~ZeroState(ui)

\* C18: the toast is hidden only by the timer of the notification on
\* display, which is the timer set last: when a timer hides the toast no
\* later timer is pending.
C18_HiddenOnlyByOwnTimer ==
    [][ (TimerStep /\ ui.toastClass = "show" /\ ui'.toastClass = "")
          => Len(ui.timers) = 1 ]_vars

\* The parts of the display a report fills are those of `report`.
ShowsReport(d, report) ==
    /\ d.totalCost = Money(report.total_cost)
    /\ d.avgDailyCost = Money(report.average_daily_cost)
    /\ d.forecastedCost = Money(report.forecasted_monthly_cost)
    /\ d.trendTitle = report.spending_trend.title
    /\ d.trendLabels = report.spending_trend.labels
    /\ d.trendData = report.spending_trend.data
    /\ d.distTitle = report.resource_distribution.title
    /\ d.distLabels = report.resource_distribution.labels
    /\ d.distData = report.resource_distribution.data

\* C19: when the handling of a response has finished, the metrics, titles
\* and chart series are all those of the report of that response, or all in
\* the zero state; a report that makes the render step throw part-way
\* leaves the zero state.
C19_NoPartialRender ==
    Handled =>
        /\ \/ ZeroState(ui)
           \/ Applied /\ ShowsReport(ui, last.body.json)
        /\ (last.fetched /\ last.ok /\ ~IsCostReport(last.body)) => ZeroState(ui)

\* A successful response carried a report without resource_distribution:
\* updateUI threw after it had written the metrics and the trend chart, over
\* the display of another report, and the display is in the zero state.
C19_Witness ==
    /\ Handled /\ last.ok
    /\ last.body.json = ReportNoDistribution
    /\ last.req = 1
    /\ Len(requests) = 2 /\ requests[2].outcome = "rendered"
    /\ console = <<"TypeError">>
    /\ ZeroState(ui)

\* C20: a step that handles a failed call (anything but an applied report)
\* leaves the export link as it was.
C20_ClearKeepsExportLink ==
    [][ (Handled /\ ~Applied)' => ui'.exportHref = ui.exportHref ]_vars

\* The weekly call rendered, then the page-load call (daily) failed: the
\* link still encodes weekly, the timeframe of the last applied report.
C20_Witness ==
    /\ Handled /\ ~Applied /\ last.req = 1
    /\ Len(requests) = 2 /\ requests[2].outcome = "rendered"
    /\ requests[2].timeframe = <<"w","e","e","k","l","y">>
    /\ ZeroState(ui)
    /\ ui.exportHref = <<"/","e","x","p","o","r","t","-","c","s","v","?",
                         "t","i","m","e","f","r","a","m","e","=",
                         "w","e","e","k","l","y">>

====
